---- MODULE Spec2Model ----
(***************************************************************************)
(* Model of src/api/checkout.js: the checkout HTTP handler, its            *)
(* connectivity probe (testCloverConnection), the checkout-session call    *)
(* (createHostedCheckoutSession) and the retry loop makeRequestWithRetry.  *)
(*                                                                         *)
(* Time is in milliseconds.  Every pending await (a fetch in flight or a   *)
(* setTimeout) has a due time; the event with the least due time fires     *)
(* next and moves the clock to it.                                         *)
(***************************************************************************)
EXTENDS Integers, Sequences, FiniteSets, TLC

VARIABLES
    now,        \* Date.now()
    env,        \* process.env: which credentials are set
    policy,     \* the arguments maxRetries, baseDelay of makeRequestWithRetry
    active,     \* the handler invocations that take place
    pc,         \* per invocation: the await it is suspended at
    due,        \* per invocation: when the pending await settles
    req,        \* per invocation: the request (method, body)
    attempt,    \* per invocation: loop variable of makeRequestWithRetry
    calls,      \* per invocation: fetch calls issued by makeRequestWithRetry
    probes,     \* per invocation: fetch calls issued by testCloverConnection
    probeResp,  \* per invocation: the outcome of the probe
    issuedAt,   \* per invocation: issue time of its latest fetch
    settledAt,  \* per invocation: time its latest fetch had its outcome
    hist,       \* per invocation: status of each attempt handled (0: transport failure)
    lastResp,   \* per invocation: the answer to the latest settled attempt
    waitTime,   \* per invocation: the waitTime last computed (a JS number)
    waitKind,   \* per invocation: which branch computed it
    sleeps,     \* per invocation: durations of the sleeps performed, in order
    lastError,  \* per invocation: lastError of makeRequestWithRetry
    result,     \* per invocation: how makeRequestWithRetry ended
    res,        \* per invocation: the HTTP response sent
    lastIssue,  \* issue time of the latest outbound fetch (-1: none yet)
    prevIssue   \* issue time of the outbound fetch before it (-1: none)

vars == <<now, env, policy, active, pc, due, req, attempt, calls, probes, probeResp,
          issuedAt, settledAt, hist,
          lastResp, waitTime, waitKind, sleeps, lastError, result, res, lastIssue,
          prevIssue>>

----------------------------------------------------------------------------
(* Bounds of the model *)

NumProcs == 2
MaxRetriesBound == 2

Procs == 1..NumProcs

(* Program constants *)
DefaultMaxRetries == 3
DefaultBaseDelay == 2000
MaxDelay == 60000
AttemptSpacing == 1000
JitterRange == 2000
TimeoutMax == 2147483647

StartTime == 1000 * 1000

----------------------------------------------------------------------------
(* JS numbers that may be NaN *)

Num(v) == [nan |-> FALSE, v |-> v]
NaN == [nan |-> TRUE, v |-> 0]

MathMax(a, x) == IF x.nan THEN NaN ELSE Num(IF x.v > a THEN x.v ELSE a)
MathMin(x, b) == IF x.nan THEN NaN ELSE Num(IF x.v < b THEN x.v ELSE b)

RECURSIVE Pow(_, _)
Pow(b, e) == IF e = 0 THEN 1 ELSE b * Pow(b, e - 1)

----------------------------------------------------------------------------
(* Response headers.  A header value is known by what the code reads of  *)
(* it.  "absent": the header is missing or empty (falsy at lines 290 and   *)
(* 296).  "num": the text matches /^\d+$/ (line 291), v the number         *)
(* parseInt reads ("120", "007").  "text": any other text; int is what     *)
(* parseInt(text) gives and time what new Date(text).getTime() gives, each *)
(* a JS number that is NaN when the text has no such reading.  The code    *)
(* hands to new Date only a text that fails the test of line 291.          *)

Absent == [t |-> "absent"]
Digits(n) == [t |-> "num", v |-> n]
Text(i, tm) == [t |-> "text", int |-> i, time |-> tm]

(* A text that parseInt reads as n and that is no date: "2000abc" and     *)
(* "0x7D0" (n = 2000), "10s" (n = 10)                                     *)
Prefixed(n) == Text(Num(n), NaN)

(* An HTTP date in the IMF-fixdate form, ms its time: it starts with the  *)
(* name of the day, which parseInt reads no number from                   *)
HttpDate(ms) == Text(NaN, Num(ms))

(* A date in the ISO form, y its year and ms its time: parseInt reads the *)
(* year ("1970-01-01T00:17:00.000Z": y = 1970, ms = 1020000)              *)
IsoDate(y, ms) == Text(Num(y), Num(ms))

(* A text with neither reading: "soon" *)
Garbage == Text(NaN, NaN)

(* The integers of the model are 32 bits wide.  A text that new Date      *)
(* reads as a time before EarliestTime ("1010.5", read as a day of the    *)
(* year 1010) stands in the model with the time EarliestTime: the code    *)
(* uses the time in Math.max(0, time - Date.now()) only (line 294), and   *)
(* both times are before every reading of the clock.                      *)
EarliestTime == -2000000000

(* "1010.5" as the code reads it *)
AncientDate == Text(Num(1010), Num(EarliestTime))

(* Gateway outcomes of one fetch.  kind "transport": fetch rejects with    *)
(* TypeError('fetch failed').  A response arrives in two steps: status and *)
(* headers settle the fetch, the body settles response.json() or           *)
(* response.text().  bodyFails: the body stream errors while it is read    *)
(* (the read rejects with a TypeError).  bodyFetch: the body text, and so  *)
(* every error message quoting it whole, contains the word "fetch".        *)
(* excerptFetch: the excerpt of the body that the SyntaxError of           *)
(* response.json() quotes contains the word "fetch".  jsonOk: the body     *)
(* parses as JSON.  jsonNull: it parses to null.                           *)

Transport ==
    [kind |-> "transport", status |-> 0, bodyFetch |-> FALSE, excerptFetch |-> FALSE,
     jsonOk |-> FALSE, jsonNull |-> FALSE, bodyFails |-> FALSE,
     retryAfter |-> Absent, reset |-> Absent]

(* A response whose body arrives; its SyntaxError, if any, quotes the     *)
(* body whole                                                             *)
Response(s, bf, js, ra, rs) ==
    [kind |-> "response", status |-> s, bodyFetch |-> bf, excerptFetch |-> bf,
     jsonOk |-> js, jsonNull |-> FALSE, bodyFails |-> FALSE,
     retryAfter |-> ra, reset |-> rs]

(* Status and headers of a response whose body has not arrived yet *)
Headers(s, ra, rs) == Response(s, FALSE, FALSE, ra, rs)

(* The body is the JSON text null *)
NullBody(h) == [h EXCEPT !.jsonOk = TRUE, !.jsonNull = TRUE]

(* The body stream errors before the body is complete *)
LostBody(h) == [h EXCEPT !.bodyFails = TRUE]

(* A body that is not JSON and mentions fetch beyond the excerpt that the *)
(* SyntaxError quotes ("cannot fetch resource")                           *)
LongFetchBody(h) == [h EXCEPT !.bodyFetch = TRUE, !.excerptFetch = FALSE]

(* A body of text, not JSON *)
TextBody(h, bf) == [h EXCEPT !.bodyFetch = bf, !.excerptFetch = bf]

(* A body that parses to a JSON object *)
JsonBody(h) == [h EXCEPT !.jsonOk = TRUE]

NoResp ==
    [kind |-> "none", status |-> 0, bodyFetch |-> FALSE, excerptFetch |-> FALSE,
     jsonOk |-> FALSE, jsonNull |-> FALSE, bodyFails |-> FALSE,
     retryAfter |-> Absent, reset |-> Absent]

(* The header pairs (Retry-After, X-RateLimit-Reset) a 429 may carry at   *)
(* time t: none; seconds with and without a reset time; a date ahead and   *)
(* a date past, in either form; text that is no date; a reset time ahead,  *)
(* past, followed by text, given as a date, no number                      *)
HeaderCases(t) ==
    {<<Absent, Absent>>,
     <<Digits(5), Digits((t \div 1000) + 10)>>,
     <<Digits(120), Absent>>,
     <<HttpDate(t + 10000), Digits((t \div 1000) + 30)>>,
     <<HttpDate(t - 5000), Absent>>,
     <<IsoDate(1970, t + 20000), Absent>>,
     <<AncientDate, Absent>>,
     <<Garbage, Digits((t \div 1000) + 10)>>,
     <<Absent, Digits((t \div 1000) + 10)>>,
     <<Absent, Digits((t \div 1000) - 5)>>,
     <<Absent, Prefixed((t \div 1000) + 1000)>>,
     <<Absent, IsoDate(1970, t + 20000)>>,
     <<Absent, Garbage>>}

(* Math.random() * 2000 *)
JitterValues == {0, JitterRange - 1}

(* How long a fetch takes to settle, and how long after it the body of    *)
(* the response has arrived                                               *)
LatencyValues == {50}
BodyLatencyValues == {20}

(* Status and headers the gateway can answer an attempt with at time t *)
Heads(t) ==
    {Headers(s, Absent, Absent) : s \in {200, 302, 404, 500, 503}}
    \cup {Headers(429, h[1], h[2]) : h \in HeaderCases(t)}

(* The bodies that can follow the status and headers h of an attempt *)
BodiesOf(h) ==
    CASE h.status = 200 ->
            {JsonBody(h), NullBody(h), TextBody(h, FALSE), TextBody(h, TRUE),
             LongFetchBody(h), LostBody(h)}
      [] h.status = 404 -> {TextBody(h, FALSE), TextBody(h, TRUE), LostBody(h)}
      [] h.status = 302 -> {TextBody(h, FALSE), TextBody(h, TRUE)}
      [] h.status = 503 -> {TextBody(h, TRUE)}
      [] h.status = 429 /\ h.retryAfter = Absent /\ h.reset = Absent ->
            {TextBody(h, FALSE), LostBody(h)}
      [] OTHER -> {TextBody(h, FALSE)}

(* The outcomes the gateway can give to a fetch that settles at time t *)
Outcomes(t) == {Transport} \cup UNION {BodiesOf(h) : h \in Heads(t)}

(* Status of the answers to the probe, and the bodies that can follow *)
ProbeHeads == {Headers(s, Absent, Absent) : s \in {200, 404, 429, 503}}

ProbeBodiesOf(h) ==
    CASE h.status = 200 -> {JsonBody(h), NullBody(h), TextBody(h, FALSE), LostBody(h)}
      [] h.status = 404 -> {TextBody(h, FALSE), LostBody(h)}
      [] OTHER -> {TextBody(h, FALSE)}

----------------------------------------------------------------------------
(* Errors thrown inside makeRequestWithRetry.  statusCode 0: the property  *)
(* is undefined.  fetchMsg: error.message.includes('fetch').               *)

Err(n, fm, sc, ra) == [name |-> n, fetchMsg |-> fm, code |-> "", statusCode |-> sc, retryAfter |-> ra]
NoErr == Err("", FALSE, 0, Absent)

(* The value makeRequestWithRetry returns: the payload of the attempt of  *)
(* that index, or null; NoPayload: none                                   *)
NoPayload == -1
NullPayload == -2

Effect(a, e, w, k, pl) == [act |-> a, err |-> e, wait |-> w, kind |-> k, payload |-> pl]

(* response.ok *)
responseOk(status) == status >= 200 /\ status <= 299

(* sleep(ms): setTimeout runs a delay that is NaN, below 1 or above        *)
(* 2^31-1 as 1 ms.                                                         *)
sleep(ms) == IF ms.nan \/ ms.v < 1 \/ ms.v > TimeoutMax THEN 1 ELSE ms.v

(* src 293-294: new Date(retryAfter).getTime(), of a text that is not   *)
(* all digits                                                             *)
getTime(h) == h.time

(* src 292, 297: parseInt of a header that is present *)
parseInt(h) == IF h.t = "num" THEN Num(h.v) ELSE h.int

Minus(x, n) == IF x.nan THEN NaN ELSE Num(x.v - n)
Times(x, n) == IF x.nan THEN NaN ELSE Num(x.v * n)

(* src 303: baseDelay * Math.pow(3, attempt) + Math.random() * 2000 *)
rateLimitBackoff(baseDelay, att, jitter) == baseDelay * Pow(3, att) + jitter

(* src 330, 347: baseDelay * Math.pow(2, attempt) *)
exponentialBackoff(baseDelay, att) == baseDelay * Pow(2, att)

(* Mutant of capWait: the cap is written with one zero too many *)
capWaitTenfold(w) == MathMin(w, 10 * MaxDelay)

(* src 306: the cap on the 429 wait *)
capWait(w) == MathMin(w, MaxDelay)

(* Mutant of rateLimitWaitTime: only the computed backoff is capped, the  *)
(* header values are taken as they come                                   *)
rateLimitWaitTimeCapsBackoffOnly(o, att, baseDelay, jitter, t) ==
    IF o.retryAfter.t # "absent"
    THEN IF o.retryAfter.t = "num"
         THEN Times(parseInt(o.retryAfter), 1000)
         ELSE MathMax(0, Minus(getTime(o.retryAfter), t))
    ELSE IF o.reset.t # "absent"
         THEN MathMax(0, Minus(Times(parseInt(o.reset), 1000), t))
         ELSE capWait(Num(rateLimitBackoff(baseDelay, att, jitter)))

(* Mutant of rateLimitWaitTime: the reset header is looked at first *)
rateLimitWaitTimeResetFirst(o, att, baseDelay, jitter, t) ==
    LET raw == IF o.reset.t # "absent"
               THEN MathMax(0, Minus(Times(parseInt(o.reset), 1000), t))
               ELSE IF o.retryAfter.t # "absent"
                    THEN IF o.retryAfter.t = "num"
                         THEN Times(parseInt(o.retryAfter), 1000)
                         ELSE MathMax(0, Minus(getTime(o.retryAfter), t))
                    ELSE Num(rateLimitBackoff(baseDelay, att, jitter))
    IN capWait(raw)

(* src 287-306: the wait after a 429 with attempts remaining *)
rateLimitWaitTime(o, att, baseDelay, jitter, t) ==
    LET raw == IF o.retryAfter.t # "absent"
               THEN IF o.retryAfter.t = "num"
                    THEN Times(parseInt(o.retryAfter), 1000)
                    ELSE MathMax(0, Minus(getTime(o.retryAfter), t))
               ELSE IF o.reset.t # "absent"
                    THEN MathMax(0, Minus(Times(parseInt(o.reset), 1000), t))
                    ELSE Num(rateLimitBackoff(baseDelay, att, jitter))
    IN capWait(raw)

(* src 279: the hint attached to the failure when the 429 is final *)
retryAfterHint(o) == IF o.retryAfter.t # "absent" THEN o.retryAfter ELSE o.reset

(* src 321: client errors that are not retried *)
isClientError(status) == status >= 400 /\ status < 500 /\ status # 429

(* src 343: errors the catch block retries *)
isNetworkError(e) == e.name = "TypeError" \/ e.fetchMsg \/ e.code = "ECONNRESET"

(* Mutant of tryBody: a 5xx is thrown at once, like a client error *)
tryBodyNoServerRetry(o, att, maxRetries, baseDelay, jitter, t) ==
    IF o.kind = "transport"
    THEN Effect("throw", Err("TypeError", TRUE, 0, Absent), NaN, "", -1)
    ELSE IF o.bodyFails
    THEN Effect("throw", Err("TypeError", FALSE, 0, Absent), NaN, "", -1)
    ELSE IF responseOk(o.status)
    THEN IF o.jsonOk
         THEN Effect("return", NoErr, NaN, "", IF o.jsonNull THEN NullPayload ELSE att)
         ELSE Effect("throw", Err("SyntaxError", o.excerptFetch, 0, Absent), NaN, "", -1)
    ELSE IF o.status = 429
    THEN IF att = maxRetries
         THEN Effect("throw", Err("Error", FALSE, 429, retryAfterHint(o)), NaN, "", -1)
         ELSE Effect("sleep", NoErr, rateLimitWaitTime(o, att, baseDelay, jitter, t), "429", -1)
    ELSE Effect("throw", Err("Error", o.bodyFetch, o.status, Absent), NaN, "", -1)

(* Mutant of tryBody: the response.ok test is missing, so a 2xx falls     *)
(* through to the error handling                                          *)
tryBodyNoOkTest(o, att, maxRetries, baseDelay, jitter, t) ==
    IF o.kind = "transport"
    THEN Effect("throw", Err("TypeError", TRUE, 0, Absent), NaN, "", -1)
    ELSE IF o.bodyFails
    THEN Effect("throw", Err("TypeError", FALSE, 0, Absent), NaN, "", -1)
    ELSE IF o.status = 429
    THEN IF att = maxRetries
         THEN Effect("throw", Err("Error", FALSE, 429, retryAfterHint(o)), NaN, "", -1)
         ELSE Effect("sleep", NoErr, rateLimitWaitTime(o, att, baseDelay, jitter, t), "429", -1)
    ELSE LET error == Err("Error", o.bodyFetch, o.status, Absent)
         IN IF isClientError(o.status)
            THEN Effect("throw", error, NaN, "", -1)
            ELSE IF o.status >= 500
            THEN IF att = maxRetries
                 THEN Effect("throw", error, NaN, "", -1)
                 ELSE Effect("sleep", NoErr, Num(exponentialBackoff(baseDelay, att)), "5xx", -1)
            ELSE Effect("throw", error, NaN, "", -1)

(* src 248-336: the try block of one attempt, for the answer o whose body *)
(* has settled at time t (Date.now() at lines 297 and 301)                *)
tryBody(o, att, maxRetries, baseDelay, jitter, t) ==
    IF o.kind = "transport"
    THEN Effect("throw", Err("TypeError", TRUE, 0, Absent), NaN, "", -1)
    ELSE IF o.bodyFails
    THEN Effect("throw", Err("TypeError", FALSE, 0, Absent), NaN, "", -1)
    ELSE IF responseOk(o.status)
    THEN IF o.jsonOk
         THEN Effect("return", NoErr, NaN, "", IF o.jsonNull THEN NullPayload ELSE att)
         ELSE Effect("throw", Err("SyntaxError", o.excerptFetch, 0, Absent), NaN, "", -1)
    ELSE IF o.status = 429
    THEN IF att = maxRetries
         THEN Effect("throw", Err("Error", FALSE, 429, retryAfterHint(o)), NaN, "", -1)
         ELSE Effect("sleep", NoErr, rateLimitWaitTime(o, att, baseDelay, jitter, t), "429", -1)
    ELSE LET error == Err("Error", o.bodyFetch, o.status, Absent)
         IN IF isClientError(o.status)
            THEN Effect("throw", error, NaN, "", -1)
            ELSE IF o.status >= 500
            THEN IF att = maxRetries
                 THEN Effect("throw", error, NaN, "", -1)
                 ELSE Effect("sleep", NoErr, Num(exponentialBackoff(baseDelay, att)), "5xx", -1)
            ELSE Effect("throw", error, NaN, "", -1)

(* Mutant of catchBlock: every caught error is rethrown, none is retried *)
catchBlockRethrows(e, att, maxRetries, baseDelay) == Effect("throw", e, NaN, "none", -1)

(* src 338-355: the catch block *)
catchBlock(e, att, maxRetries, baseDelay) ==
    IF isNetworkError(e)
    THEN IF att = maxRetries
         THEN Effect("throw", e, NaN, "", -1)
         ELSE Effect("sleep", NoErr, Num(exponentialBackoff(baseDelay, att)), "network", -1)
    ELSE Effect("throw", e, NaN, "", -1)

(* Mutant of nextAttempt: continue re-enters the loop without counting *)
nextAttemptStuck(att) == att

(* Mutant of spacingWait: 100 written for 1000 *)
spacingWaitShort == Num(AttemptSpacing \div 10)

(* src 244-246: the wait before every attempt but the first *)
spacingWait == Num(AttemptSpacing)

(* src 238: attempt++ *)
nextAttempt(att) == att + 1

(* src 238: attempt <= maxRetries *)
loopContinues(att, maxRetries) == att <= maxRetries

(* src 239-355: one iteration of the loop, for the answer o whose body    *)
(* has settled at time t                                                  *)
attemptEffect(o, att, maxRetries, baseDelay, jitter, t) ==
    LET e == tryBody(o, att, maxRetries, baseDelay, jitter, t)
    IN IF e.act = "throw" THEN catchBlock(e.err, att, maxRetries, baseDelay) ELSE e


----------------------------------------------------------------------------
(* The handler's request and response *)

Methods == {"POST", "OPTIONS", "GET"}

(* name: customerData.name is a string or missing ("string"), or a value  *)
(* of another type, as in customerData {name: 123} ("other")              *)
Body(hb, ha, a, c) ==
    [hasBody |-> hb, hasAmount |-> ha, amount |-> a, coupon |-> c, name |-> "string"]

(* The body b with a customerData.name that is no string *)
OddName(b) == [b EXCEPT !.name = "other"]

(* req.body: undefined, or an object whose amount and coupon may be missing *)
(* (coupon "": none given)                                                  *)
Bodies ==
    {Body(FALSE, FALSE, 0, "")}
    \cup {OddName(Body(TRUE, TRUE, 100, "SAVE20"))}
    \cup {Body(TRUE, FALSE, 0, c) : c \in {"", "SAVE20"}}
    \cup {Body(TRUE, TRUE, a, "SAVE10") : a \in {0, -5}}
    \cup {Body(TRUE, TRUE, 100, c) : c \in {"", "SAVE20", "BOGUS"}}
    \cup {Body(TRUE, TRUE, 5, "SAVE10"), Body(TRUE, TRUE, 15, "SAVE50")}

Requests == [method : Methods, body : Bodies]

(* POST {amount: 100, coupon: "SAVE20"} *)
ReferenceRequest == [method |-> "POST", body |-> Body(TRUE, TRUE, 100, "SAVE20")]

NoReq == [method |-> "", body |-> Body(FALSE, FALSE, 0, "")]

NoRes ==
    [sent |-> 0, status |-> 0, json |-> FALSE, error |-> "", statusCode |-> 0,
     retryAfter |-> Absent, originalAmount |-> 0, discountAmount |-> 0,
     finalAmount |-> 0, couponApplied |-> "", payload |-> -1]

(* res.status(s).json({error: e, ...}) on a response r *)
sendError(r, s, e) == [r EXCEPT !.sent = @ + 1, !.status = s, !.json = TRUE, !.error = e]

(* Mutant of credentialsMissing: && in place of || *)
credentialsBothMissing(e) == ~e.token /\ ~e.merchant

(* src 22: !CLOVER_AUTH_TOKEN || !CLOVER_MERCHANT_ID *)
credentialsMissing(e) == ~e.token \/ ~e.merchant

(* Mutant of invalidAmount: the test amount <= 0 is missing *)
invalidAmountFalsyOnly(b) == ~b.hasAmount \/ b.amount = 0

(* src 34: !amount || amount <= 0 *)
invalidAmount(b) == ~b.hasAmount \/ b.amount = 0 \/ b.amount <= 0

(* src 51-55: the coupon table *)
coupons == {[code |-> "SAVE10", value |-> 10, active |-> TRUE],
            [code |-> "SAVE20", value |-> 20, active |-> TRUE],
            [code |-> "SAVE50", value |-> 50, active |-> TRUE]}

(* src 61: coupons.find(c => c.code === coupon && c.active) *)
foundCoupon(coupon) == {c \in coupons : c.code = coupon /\ c.active}

(* Mutant of MathRound: Math.floor *)
MathFloor(n, d) == n \div d

(* Math.round of n / d for n >= 0, d > 0: halves round up *)
MathRound(n, d) == (2 * n + d) \div (2 * d)

(* src 57-66 *)
discountAmount(b) ==
    IF b.coupon # "" /\ foundCoupon(b.coupon) # {}
    THEN LET c == CHOOSE c \in foundCoupon(b.coupon) : TRUE
         IN MathRound(b.amount * c.value, 100)
    ELSE 0

(* src 58-65, 92: appliedCoupon?.code || null ("": null) *)
couponApplied(b) ==
    IF b.coupon # "" /\ foundCoupon(b.coupon) # {} THEN b.coupon ELSE ""

(* src 68: Math.max(0, amount - discountAmount) *)
finalAmount(b) ==
    LET d == b.amount - discountAmount(b) IN IF d > 0 THEN d ELSE 0

(* src 1-36: the handler up to the first await: the response it sends, or *)
(* r unchanged (sent = 0) when it goes on to the connectivity probe        *)
handlerEntry(r, method, e, b) ==
    IF method = "OPTIONS"
    THEN [r EXCEPT !.sent = @ + 1, !.status = 200]
    ELSE IF method # "POST"
    THEN sendError(r, 405, "Method not allowed")
    ELSE IF credentialsMissing(e)
    THEN sendError(r, 500, "Server configuration error")
    ELSE IF ~b.hasBody
    THEN sendError(r, 500, "Internal server error")
    ELSE IF invalidAmount(b)
    THEN sendError(r, 400, "Invalid amount provided")
    ELSE r

(* Mutant of testCloverConnection: response.ok is not tested and the body *)
(* is not read, any answer counts as success                              *)
testCloverConnectionNoOkTest(o) ==
    IF o.kind = "response"
    THEN [success |-> TRUE, statusCode |-> 0]
    ELSE [success |-> FALSE, statusCode |-> 0]

(* src 124-156: the result of testCloverConnection for the outcome o of   *)
(* its fetch, body included: reading a body that fails, parsing one that  *)
(* is no JSON and reading data.id of null all throw into the catch block  *)
testCloverConnection(o) ==
    IF o.kind # "response" \/ o.bodyFails
    THEN [success |-> FALSE, statusCode |-> 0]
    ELSE IF responseOk(o.status)
    THEN IF o.jsonOk /\ ~o.jsonNull
         THEN [success |-> TRUE, statusCode |-> 0]
         ELSE [success |-> FALSE, statusCode |-> 0]
    ELSE [success |-> FALSE, statusCode |-> o.status]

(* src 172-173: customerData.name?.split(' ') throws when name is neither *)
(* missing nor a string                                                   *)
payloadThrows(b) == b.name = "other"

(* makeRequestWithRetry was not called *)
NotCalled == Effect("none", NoErr, NaN, "", NoPayload)

(* Mutant of createHostedCheckoutSession: no branch for statusCode 429,   *)
(* so the hint is dropped                                                 *)
createHostedCheckoutSessionNoHint(b, eff) ==
    IF payloadThrows(b) \/ (eff.act = "return" /\ eff.payload = NullPayload)
    THEN [success |-> FALSE, statusCode |-> 500, retryAfter |-> Absent, sessionId |-> -1]
    ELSE IF eff.act = "return"
    THEN [success |-> TRUE, statusCode |-> 0, retryAfter |-> Absent, sessionId |-> eff.payload]
    ELSE [success |-> FALSE,
          statusCode |-> IF eff.err.statusCode # 0 THEN eff.err.statusCode ELSE 500,
          retryAfter |-> Absent, sessionId |-> -1]

(* src 42-48: the handler's response to a failed connectivity probe *)
probeFailed(r, t) ==
    [sendError(r, 500, "Clover API connection failed") EXCEPT !.statusCode = t.statusCode]

(* src 160-231: the result of createHostedCheckoutSession for the body b  *)
(* of the request and the end eff of its makeRequestWithRetry: building   *)
(* the payload may throw before the call (eff is then not looked at), and *)
(* result.href throws when the call returned null; both are caught at     *)
(* line 213                                                               *)
createHostedCheckoutSession(b, eff) ==
    IF payloadThrows(b) \/ (eff.act = "return" /\ eff.payload = NullPayload)
    THEN [success |-> FALSE, statusCode |-> 500, retryAfter |-> Absent, sessionId |-> -1]
    ELSE IF eff.act = "return"
    THEN [success |-> TRUE, statusCode |-> 0, retryAfter |-> Absent, sessionId |-> eff.payload]
    ELSE IF eff.err.statusCode = 429
    THEN [success |-> FALSE, statusCode |-> 429, retryAfter |-> eff.err.retryAfter, sessionId |-> -1]
    ELSE [success |-> FALSE,
          statusCode |-> IF eff.err.statusCode # 0 THEN eff.err.statusCode ELSE 500,
          retryAfter |-> Absent, sessionId |-> -1]

(* Mutant of handlerRespond: no return after the failure response, so the *)
(* success response is sent as well                                       *)
handlerRespondFallsThrough(r, b, c) ==
    LET r1 == IF ~c.success
              THEN [sendError(r, IF c.statusCode # 0 THEN c.statusCode ELSE 500,
                              "Payment processing failed")
                      EXCEPT !.retryAfter = c.retryAfter]
              ELSE r
    IN [r1 EXCEPT !.sent = @ + 1, !.status = 200, !.json = TRUE,
                  !.originalAmount = b.amount,
                  !.discountAmount = discountAmount(b),
                  !.finalAmount = finalAmount(b),
                  !.couponApplied = couponApplied(b),
                  !.payload = c.sessionId]

(* src 79-94: the handler's response to the result of the checkout call *)
handlerRespond(r, b, c) ==
    IF ~c.success
    THEN [sendError(r, IF c.statusCode # 0 THEN c.statusCode ELSE 500, "Payment processing failed")
            EXCEPT !.retryAfter = c.retryAfter]
    ELSE [r EXCEPT !.sent = @ + 1, !.status = 200, !.json = TRUE,
                   !.originalAmount = b.amount,
                   !.discountAmount = discountAmount(b),
                   !.finalAmount = finalAmount(b),
                   !.couponApplied = couponApplied(b),
                   !.payload = c.sessionId]


----------------------------------------------------------------------------
(* The state machine *)

BaseDelayValues == {DefaultBaseDelay, 40000}

Policies == [maxRetries : 0..MaxRetriesBound, baseDelay : BaseDelayValues]

(* src 235: maxRetries = 3, baseDelay = 2000 *)
DefaultPolicy == [maxRetries |-> DefaultMaxRetries, baseDelay |-> DefaultBaseDelay]

Envs == [token : BOOLEAN, merchant : BOOLEAN]

Configured == [token |-> TRUE, merchant |-> TRUE]

NoResult == [kind |-> "none", err |-> NoErr, payload |-> -1]

Pending == {"probe", "probeBody", "fetching", "reading", "backoff", "spacing"}

(* The await of p is the next one to settle *)
IsNext(p) == \A q \in active : pc[q] \in Pending => due[p] <= due[q]

(* No invocation of ps has started *)
NothingStarted(ps) ==
    /\ now = StartTime
    /\ active = ps
    /\ pc = [p \in Procs |-> "idle"]
    /\ due = [p \in Procs |-> 0]
    /\ attempt = [p \in Procs |-> 0]
    /\ calls = [p \in Procs |-> 0]
    /\ probes = [p \in Procs |-> 0]
    /\ probeResp = [p \in Procs |-> NoResp]
    /\ issuedAt = [p \in Procs |-> -1]
    /\ settledAt = [p \in Procs |-> -1]
    /\ hist = [p \in Procs |-> <<>>]
    /\ lastResp = [p \in Procs |-> NoResp]
    /\ waitTime = [p \in Procs |-> NaN]
    /\ waitKind = [p \in Procs |-> ""]
    /\ sleeps = [p \in Procs |-> <<>>]
    /\ lastError = [p \in Procs |-> NoErr]
    /\ result = [p \in Procs |-> NoResult]
    /\ res = [p \in Procs |-> NoRes]
    /\ lastIssue = -1
    /\ prevIssue = -1

InitWith(ps) ==
    /\ \/ /\ policy = DefaultPolicy
          /\ env \in Envs
          /\ \E rq \in [ps -> Requests] :
                req = [p \in Procs |-> IF p \in ps THEN rq[p] ELSE NoReq]
       \/ /\ policy \in Policies
          /\ env = Configured
          /\ req = [p \in Procs |-> IF p \in ps THEN ReferenceRequest ELSE NoReq]
    /\ NothingStarted(ps)

(* One handler invocation: the program as deployed (the default policy)    *)
(* on every request and environment, and makeRequestWithRetry under every  *)
(* policy on the reference request                                         *)
Init == InitWith({1})

(* p issues a fetch at time t *)
Issue(p, t) ==
    /\ lastIssue' = t
    /\ prevIssue' = lastIssue
    /\ issuedAt' = [issuedAt EXCEPT ![p] = t]

(* How long after the latest event a further request arrives, and the    *)
(* time a late request arrives at: a minute after the first               *)
ArrivalDelays == {0, 10, 25}
ArrivalTimes == {StartTime + 60000}

(* When a request can arrive.  The clock starts when the first request    *)
(* arrives; a further request arrives then or later, before the pending   *)
(* awaits that settle first                                               *)
Arrivals ==
    IF \A q \in active : pc[q] = "idle"
    THEN {now}
    ELSE {a \in {now + d : d \in ArrivalDelays} \cup ArrivalTimes :
             /\ a >= now
             /\ \A q \in active : pc[q] \in Pending => a <= due[q]}

(* src 1-39, 106-122: the request of p arrives, at the time a: the        *)
(* handler runs up to its first await: it answers, or                     *)
(* testCloverConnection issues the probe                                  *)
handler(p) ==
    /\ p \in active
    /\ pc[p] = "idle"
    /\ \E a \in Arrivals, l \in LatencyValues :
         LET r == handlerEntry(res[p], req[p].method, env, req[p].body)
         IN /\ now' = a
            /\ res' = [res EXCEPT ![p] = r]
            /\ IF r.sent > 0
               THEN /\ pc' = [pc EXCEPT ![p] = "done"]
                    /\ UNCHANGED <<due, probes, lastIssue, prevIssue, issuedAt>>
               ELSE /\ pc' = [pc EXCEPT ![p] = "probe"]
                    /\ due' = [due EXCEPT ![p] = a + l]
                    /\ probes' = [probes EXCEPT ![p] = @ + 1]
                    /\ Issue(p, a)
    /\ UNCHANGED <<env, policy, active, req, attempt, calls, probeResp, settledAt,
                   hist, lastResp, waitTime, waitKind, sleeps, lastError, result>>

(* src 116-122, 150-156, 42-48: the fetch of the probe settles: it        *)
(* rejects and the handler answers 500, or status and headers are there   *)
(* and testCloverConnection awaits the body                               *)
probeSettles(p) ==
    /\ p \in active
    /\ pc[p] = "probe"
    /\ IsNext(p)
    /\ now' = due[p]
    /\ \/ /\ probeResp' = [probeResp EXCEPT ![p] = Transport]
          /\ res' = [res EXCEPT ![p] = probeFailed(@, testCloverConnection(Transport))]
          /\ pc' = [pc EXCEPT ![p] = "done"]
          /\ settledAt' = [settledAt EXCEPT ![p] = due[p]]
          /\ UNCHANGED due
       \/ \E h \in ProbeHeads, l \in BodyLatencyValues :
             /\ probeResp' = [probeResp EXCEPT ![p] = h]
             /\ pc' = [pc EXCEPT ![p] = "probeBody"]
             /\ due' = [due EXCEPT ![p] = due[p] + l]
             /\ UNCHANGED <<res, settledAt>>
    /\ UNCHANGED <<env, policy, active, req, attempt, calls, probes, issuedAt, hist,
                   lastResp, waitTime, waitKind, sleeps, lastError, result, lastIssue,
                   prevIssue>>

(* src 132-156, 40-77, 160-205, 235-248: the body of the probe's answer   *)
(* settles: the handler answers 500, or goes on to                        *)
(* createHostedCheckoutSession, which fails while it builds its payload   *)
(* or whose makeRequestWithRetry issues attempt 0                         *)
probeBodySettles(p) ==
    /\ p \in active
    /\ pc[p] = "probeBody"
    /\ IsNext(p)
    /\ now' = due[p]
    /\ \E o \in ProbeBodiesOf(probeResp[p]), l \in LatencyValues :
         LET t == testCloverConnection(o)
         IN /\ probeResp' = [probeResp EXCEPT ![p] = o]
            /\ IF ~t.success
               THEN /\ res' = [res EXCEPT ![p] = probeFailed(@, t)]
                    /\ pc' = [pc EXCEPT ![p] = "done"]
                    /\ UNCHANGED <<due, attempt, calls, lastIssue, prevIssue, issuedAt>>
               ELSE IF payloadThrows(req[p].body)
               THEN /\ res' = [res EXCEPT ![p] =
                          handlerRespond(@, req[p].body,
                             createHostedCheckoutSession(req[p].body, NotCalled))]
                    /\ pc' = [pc EXCEPT ![p] = "done"]
                    /\ UNCHANGED <<due, attempt, calls, lastIssue, prevIssue, issuedAt>>
               ELSE /\ attempt' = [attempt EXCEPT ![p] = 0]
                    /\ calls' = [calls EXCEPT ![p] = @ + 1]
                    /\ pc' = [pc EXCEPT ![p] = "fetching"]
                    /\ due' = [due EXCEPT ![p] = due[p] + l]
                    /\ Issue(p, due[p])
                    /\ UNCHANGED res
    /\ settledAt' = [settledAt EXCEPT ![p] = due[p]]
    /\ UNCHANGED <<env, policy, active, req, probes, hist, lastResp, waitTime, waitKind,
                   sleeps, lastError, result>>

(* src 264-355, 207-231, 79-94: the attempt of p has its outcome o (the   *)
(* fetch rejected, or the body settled) at time due[p]: the loop returns, *)
(* throws or sleeps before the next iteration; on return or throw the     *)
(* handler answers.  hist records the status, 0 when the fetch rejected   *)
(* or the body failed to arrive                                           *)
Handled(p, o, j) ==
    LET eff == attemptEffect(o, attempt[p], policy.maxRetries, policy.baseDelay, j, due[p])
        thrown == tryBody(o, attempt[p], policy.maxRetries, policy.baseDelay, j, due[p])
    IN /\ hist' = [hist EXCEPT ![p] =
                      Append(@, IF o.kind = "transport" \/ o.bodyFails THEN 0 ELSE o.status)]
       /\ lastResp' = [lastResp EXCEPT ![p] = o]
       /\ lastError' = [lastError EXCEPT ![p] =
                           IF thrown.act = "throw" THEN thrown.err ELSE @]
       /\ settledAt' = [settledAt EXCEPT ![p] = due[p]]
       /\ IF eff.act = "sleep"
          THEN /\ waitTime' = [waitTime EXCEPT ![p] = eff.wait]
               /\ waitKind' = [waitKind EXCEPT ![p] = eff.kind]
               /\ sleeps' = [sleeps EXCEPT ![p] = Append(@, sleep(eff.wait))]
               /\ pc' = [pc EXCEPT ![p] = "backoff"]
               /\ due' = [due EXCEPT ![p] = due[p] + sleep(eff.wait)]
               /\ UNCHANGED <<result, res>>
          ELSE /\ result' = [result EXCEPT ![p] =
                     [kind |-> IF eff.act = "return" THEN "success" ELSE "failure",
                      err |-> eff.err, payload |-> eff.payload]]
               /\ res' = [res EXCEPT ![p] =
                     handlerRespond(@, req[p].body,
                        createHostedCheckoutSession(req[p].body, eff))]
               /\ pc' = [pc EXCEPT ![p] = "done"]
               /\ UNCHANGED <<waitTime, waitKind, sleeps, due>>

(* src 248, 338-355: the fetch of an attempt settles: it rejects, which   *)
(* the catch block handles, or status and headers are there and the loop  *)
(* awaits the body                                                        *)
attemptSettles(p) ==
    /\ p \in active
    /\ pc[p] = "fetching"
    /\ IsNext(p)
    /\ now' = due[p]
    /\ \/ \E j \in JitterValues : Handled(p, Transport, j)
       \/ \E h \in Heads(due[p]), l \in BodyLatencyValues :
             /\ lastResp' = [lastResp EXCEPT ![p] = h]
             /\ pc' = [pc EXCEPT ![p] = "reading"]
             /\ due' = [due EXCEPT ![p] = due[p] + l]
             /\ UNCHANGED <<hist, lastError, settledAt, waitTime, waitKind, sleeps,
                            result, res>>
    /\ UNCHANGED <<env, policy, active, req, attempt, calls, probes, probeResp, issuedAt,
                   lastIssue, prevIssue>>

(* src 265, 272, 314: the body of the attempt's answer settles *)
bodySettles(p) ==
    /\ p \in active
    /\ pc[p] = "reading"
    /\ IsNext(p)
    /\ now' = due[p]
    /\ \E o \in BodiesOf(lastResp[p]), j \in JitterValues : Handled(p, o, j)
    /\ UNCHANGED <<env, policy, active, req, attempt, calls, probes, probeResp, issuedAt,
                   lastIssue, prevIssue>>

(* src 309-310, 332-333, 349-350, 238, 244-245, 358: the backoff sleep    *)
(* ends; continue: attempt++, and the next iteration starts with          *)
(* sleep(1000)                                                            *)
backoffEnds(p) ==
    /\ p \in active
    /\ pc[p] = "backoff"
    /\ IsNext(p)
    /\ now' = due[p]
    /\ attempt' = [attempt EXCEPT ![p] = nextAttempt(@)]
    /\ IF loopContinues(nextAttempt(attempt[p]), policy.maxRetries)
       THEN /\ sleeps' = [sleeps EXCEPT ![p] = Append(@, sleep(spacingWait))]
            /\ pc' = [pc EXCEPT ![p] = "spacing"]
            /\ due' = [due EXCEPT ![p] = due[p] + sleep(spacingWait)]
            /\ UNCHANGED <<result, res>>
       ELSE /\ result' = [result EXCEPT ![p] =
                  [kind |-> "failure", err |-> lastError[p], payload |-> -1]]
            /\ res' = [res EXCEPT ![p] =
                  handlerRespond(@, req[p].body,
                     createHostedCheckoutSession(req[p].body,
                        Effect("throw", lastError[p], NaN, "", -1)))]
            /\ pc' = [pc EXCEPT ![p] = "done"]
            /\ UNCHANGED <<sleeps, due>>
    /\ UNCHANGED <<env, policy, active, req, calls, probes, probeResp, issuedAt,
                   settledAt, hist, lastResp, waitTime, waitKind, lastError, lastIssue,
                   prevIssue>>

(* src 245-248: sleep(1000) ends and the attempt's fetch is issued *)
spacingEnds(p) ==
    /\ p \in active
    /\ pc[p] = "spacing"
    /\ IsNext(p)
    /\ now' = due[p]
    /\ \E l \in LatencyValues :
         due' = [due EXCEPT ![p] = due[p] + l]
    /\ calls' = [calls EXCEPT ![p] = @ + 1]
    /\ pc' = [pc EXCEPT ![p] = "fetching"]
    /\ Issue(p, due[p])
    /\ UNCHANGED <<env, policy, active, req, attempt, probes, probeResp, settledAt, hist,
                   lastResp, waitTime, waitKind, sleeps, lastError, result, res>>

Next ==
    \E p \in Procs :
        \/ handler(p)
        \/ probeSettles(p)
        \/ probeBodySettles(p)
        \/ attemptSettles(p)
        \/ bodySettles(p)
        \/ backoffEnds(p)
        \/ spacingEnds(p)

Spec == Init /\ [][Next]_vars


----------------------------------------------------------------------------
(* Properties *)

RECURSIVE SumSeq(_)
SumSeq(q) == IF q = <<>> THEN 0 ELSE Head(q) + SumSeq(Tail(q))

Max(a, b) == IF a > b THEN a ELSE b
Min(a, b) == IF a < b THEN a ELSE b

Done(p) == pc[p] = "done"

(* A retryable failure as a settled attempt's status: transport failure,  *)
(* 429 or 5xx                                                             *)
RetryableStatus(s) == s = 0 \/ s = 429 \/ s >= 500

(* C1: one invocation of makeRequestWithRetry issues at most maxRetries+1 *)
(* fetch calls, whatever the outcomes                                     *)
C1_AttemptsBounded ==
    \A p \in active : calls[p] <= policy.maxRetries + 1

C1_Witness ==
    /\ policy.maxRetries = 3
    /\ calls[1] = 4
    /\ Done(1)
    /\ hist[1] = <<429, 0, 503, 404>>


(* C2: an attempt that receives a 4xx other than 429 ends the invocation  *)
(* at once, with a failure carrying that status and no further attempt,   *)
(* whatever the response body                                             *)
C2_ClientErrorIsTerminal ==
    \A p \in active : \A i \in 1..Len(hist[p]) :
        isClientError(hist[p][i]) =>
            /\ i = calls[p]
            /\ Done(p)
            /\ result[p].kind = "failure"
            /\ result[p].err.statusCode = hist[p][i]

(* C3: when every attempt receives a 5xx, no failure is thrown while      *)
(* attempts remain, exactly maxRetries+1 attempts are issued, and the     *)
(* failure carries the status of the last response                        *)
C3_ServerErrorsExhaust ==
    \A p \in active :
        LET n == Len(hist[p])
        IN (n > 0 /\ \A i \in 1..n : hist[p][i] >= 500) =>
              IF n = policy.maxRetries + 1
              THEN /\ Done(p)
                   /\ calls[p] = policy.maxRetries + 1
                   /\ result[p].kind = "failure"
                   /\ result[p].err.statusCode = hist[p][n]
                   /\ res[p].status = hist[p][n]
              ELSE /\ ~Done(p)
                   /\ result[p].kind = "none"
                   /\ n < policy.maxRetries + 1

C3_Witness ==
    /\ policy = DefaultPolicy
    /\ Done(1)
    /\ hist[1] = <<500, 503, 500, 503>>
    /\ calls[1] = 4
    /\ result[1].err.statusCode = 503

(* The settled attempts of p are k retryable failures followed by a 2xx *)
RetriesThenOk(p) ==
    LET n == Len(hist[p])
    IN /\ n > 0
       /\ responseOk(hist[p][n])
       /\ \A i \in 1..(n - 1) : RetryableStatus(hist[p][i])

(* k+1 attempts were issued and the payload of attempt index k returned:  *)
(* null when the body is the JSON text null, which the session builder    *)
(* cannot use (the handler answers 500), else the payload the handler     *)
(* answers 200 with                                                       *)
ReturnedLastPayload(p) ==
    /\ Done(p)
    /\ calls[p] = Len(hist[p])
    /\ result[p].kind = "success"
    /\ IF lastResp[p].jsonNull
       THEN /\ result[p].payload = NullPayload
            /\ res[p].status = 500
       ELSE /\ result[p].payload = Len(hist[p]) - 1
            /\ res[p].status = 200
            /\ res[p].payload = Len(hist[p]) - 1

(* C4 as stated: k retryable failures followed by a 2xx give exactly k+1  *)
(* attempts and the parsed payload of that 2xx                            *)
C4_Original ==
    \A p \in active : RetriesThenOk(p) => ReturnedLastPayload(p)

(* C4 amended: k retryable failures followed by a 2xx whose body parses   *)
(* as JSON give exactly k+1 attempts and the payload of attempt index k   *)
C4_SuccessAfterRetries ==
    \A p \in active :
        (RetriesThenOk(p) /\ lastResp[p].jsonOk) => ReturnedLastPayload(p)

C4_Witness ==
    /\ hist[1] = <<429, 429, 200>>
    /\ lastResp[1].jsonOk
    /\ Done(1)
    /\ calls[1] = 3
    /\ result[1].payload = 2

(* C5: a 429 on the last allowed attempt makes the handler answer 429     *)
(* with a JSON body whose retryAfter is the hint of that last response:   *)
(* its Retry-After, else its reset header                                 *)
C5_RateLimitSurfaced ==
    \A p \in active :
        LET n == Len(hist[p])
        IN (n = policy.maxRetries + 1 /\ hist[p][n] = 429) =>
              /\ Done(p)
              /\ result[p].kind = "failure"
              /\ result[p].err.statusCode = 429
              /\ res[p].sent = 1
              /\ res[p].json
              /\ res[p].status = 429
              /\ res[p].retryAfter =
                    IF lastResp[p].retryAfter # Absent
                    THEN lastResp[p].retryAfter
                    ELSE lastResp[p].reset

C5_Witness ==
    /\ policy = DefaultPolicy
    /\ Done(1)
    /\ hist[1] = <<429, 500, 0, 429>>
    /\ lastResp[1].retryAfter = Absent
    /\ lastResp[1].reset.t = "num"
    /\ res[1].status = 429
    /\ res[1].retryAfter = lastResp[1].reset


(* The largest baseDelay * 2^attempt a policy can sleep: attempt is at    *)
(* most maxRetries - 1 when a backoff is slept                            *)
MaxExponentialBackoff(pol) ==
    IF pol.maxRetries = 0 THEN 0 ELSE pol.baseDelay * Pow(2, pol.maxRetries - 1)

(* C6 as stated: every wait between attempts (429 wait, 5xx backoff,      *)
(* transport-failure backoff) is >= 0 and <= maxDelay, for every policy   *)
C6_Original ==
    \A p \in active :
        pc[p] = "backoff" =>
            /\ sleep(waitTime[p]) >= 0
            /\ sleep(waitTime[p]) <= MaxDelay

(* C6 amended: every 429 wait lasts between 0 and maxDelay, its waitTime  *)
(* being a number in that range or NaN (slept as 1 ms); a 5xx or          *)
(* transport-failure backoff is baseDelay * 2^attempt, not capped, and is *)
(* <= maxDelay under every policy with baseDelay * 2^(maxRetries-1) <=    *)
(* maxDelay, the default one among them                                   *)
C6_WaitsBounded ==
    /\ MaxExponentialBackoff(DefaultPolicy) <= MaxDelay
    /\ \A p \in active :
        pc[p] = "backoff" =>
            /\ due[p] - now >= 0
            /\ waitKind[p] = "429" =>
                  /\ sleep(waitTime[p]) >= 0
                  /\ sleep(waitTime[p]) <= MaxDelay
                  /\ ~waitTime[p].nan => (waitTime[p].v >= 0 /\ waitTime[p].v <= MaxDelay)
            /\ waitKind[p] \in {"5xx", "network"} =>
                  /\ waitTime[p] = Num(policy.baseDelay * Pow(2, attempt[p]))
                  /\ waitTime[p].v >= 0
                  /\ MaxExponentialBackoff(policy) <= MaxDelay => waitTime[p].v <= MaxDelay

C6_Witness ==
    /\ pc[1] = "backoff"
    /\ waitKind[1] = "429"
    /\ lastResp[1].retryAfter = Digits(120)
    /\ waitTime[1] = Num(MaxDelay)
    /\ attempt[1] = 2

(* C7 as stated: the sleeps of one invocation sum to at most              *)
(* maxRetries * maxDelay                                                  *)
C7_Original ==
    \A p \in active : SumSeq(sleeps[p]) <= policy.maxRetries * MaxDelay

(* C7 amended: the sleeps of one invocation sum to at most maxRetries *   *)
(* (max(maxDelay, baseDelay * 2^(maxRetries-1)) + 1000): each retry       *)
(* sleeps its backoff and then the 1000 ms spacing                        *)
C7_TotalWaitBounded ==
    \A p \in active :
        SumSeq(sleeps[p]) <=
            policy.maxRetries * (Max(MaxDelay, MaxExponentialBackoff(policy)) + AttemptSpacing)

C7_Witness ==
    /\ policy = DefaultPolicy
    /\ hist[1] = <<429, 429, 429>>
    /\ SumSeq(sleeps[1]) = 3 * (MaxDelay + AttemptSpacing)
    /\ pc[1] = "fetching"

(* When the waitTime of the backoff p is sleeping was computed *)
ComputedAt(p) == due[p] - sleep(waitTime[p])

(* C8: on a 429 with attempts remaining the wait is N*1000 for a numeric  *)
(* Retry-After N, max(0, date - now) for a date-valued one, else          *)
(* max(0, T*1000 - now) for a reset header T, else baseDelay * 3^attempt  *)
(* plus a jitter in [0, 2000); all capped at 60000.  A Retry-After        *)
(* header overrides the reset header: the wait of a response that has one *)
(* does not depend on the reset header.  now is the time the body of the  *)
(* 429 has arrived; a Retry-After that is not all digits is read as a     *)
(* date, T is the number parseInt reads from the reset header; a text     *)
(* without that reading gives NaN                                         *)
C8_WaitPrecedence ==
    \A p \in active :
        (pc[p] = "backoff" /\ waitKind[p] = "429") =>
            LET ra == lastResp[p].retryAfter
                rs == lastResp[p].reset
                w == waitTime[p]
                t == ComputedAt(p)
                b == policy.baseDelay * Pow(3, attempt[p])
            IN /\ attempt[p] < policy.maxRetries
               /\ ra.t = "num" => w = Num(Min(ra.v * 1000, 60000))
               /\ (ra.t = "text" /\ ~ra.time.nan) =>
                      w = Num(Min(Max(0, ra.time.v - t), 60000))
               /\ (ra.t = "absent" /\ rs.t = "num") =>
                      w = Num(Min(Max(0, rs.v * 1000 - t), 60000))
               /\ (ra.t = "absent" /\ rs.t = "text" /\ ~rs.int.nan) =>
                      w = Num(Min(Max(0, rs.int.v * 1000 - t), 60000))
               /\ (ra.t = "absent" /\ rs.t = "text" /\ rs.int.nan) => w.nan
               /\ (ra.t = "absent" /\ rs.t = "absent") =>
                      /\ ~w.nan
                      /\ IF b >= 60000
                         THEN w.v = 60000
                         ELSE w.v >= b /\ w.v < b + 2000 /\ w.v <= 60000
               /\ (ra.t = "text" /\ ra.time.nan) => w.nan

C8_Witness ==
    /\ pc[1] = "backoff"
    /\ waitKind[1] = "429"
    /\ attempt[1] = 1
    /\ lastResp[1].retryAfter = Digits(5)
    /\ lastResp[1].reset.t = "num"
    /\ waitTime[1] = Num(5000)

(* The amount of p's request is missing, zero or negative *)
AmountNotPositive(p) == ~req[p].body.hasAmount \/ req[p].body.amount <= 0

NoGatewayCall(p) == probes[p] = 0 /\ calls[p] = 0

(* C9 as stated: a POST whose amount is missing, zero or negative is      *)
(* answered 400 'Invalid amount provided' and issues no gateway call      *)
C9_Original ==
    \A p \in active :
        (pc[p] # "idle" /\ req[p].method = "POST" /\ AmountNotPositive(p)) =>
            /\ res[p].status = 400
            /\ res[p].error = "Invalid amount provided"
            /\ NoGatewayCall(p)

(* C9 amended: with both credentials set and a request body present, a    *)
(* POST whose amount is missing, zero or negative is answered 400         *)
(* 'Invalid amount provided'; and no such POST, whatever the credentials  *)
(* and the body, issues a gateway call                                    *)
C9_InvalidAmountRejected ==
    \A p \in active :
        (req[p].method = "POST" /\ AmountNotPositive(p)) =>
            /\ NoGatewayCall(p)
            /\ (pc[p] # "idle" /\ env.token /\ env.merchant /\ req[p].body.hasBody) =>
                  /\ Done(p)
                  /\ res[p].sent = 1
                  /\ res[p].json
                  /\ res[p].status = 400
                  /\ res[p].error = "Invalid amount provided"

C9_Witness ==
    /\ Done(1)
    /\ env = Configured
    /\ req[1].method = "POST"
    /\ req[1].body.hasAmount
    /\ req[1].body.amount = -5
    /\ res[1].status = 400
    /\ lastIssue = -1

(* C10: when the bearer token or the merchant identifier is absent, a     *)
(* POST is answered 500 and issues no gateway call, whatever its body     *)
C10_MissingCredentials ==
    \A p \in active :
        (req[p].method = "POST" /\ (~env.token \/ ~env.merchant)) =>
            /\ NoGatewayCall(p)
            /\ pc[p] # "idle" =>
                  /\ Done(p)
                  /\ res[p].sent = 1
                  /\ res[p].status = 500

C10_Witness ==
    /\ Done(1)
    /\ env.token
    /\ ~env.merchant
    /\ req[1] = ReferenceRequest
    /\ res[1].status = 500
    /\ res[1].error = "Server configuration error"
    /\ lastIssue = -1

----------------------------------------------------------------------------
(* The probe of p ended in failure: transport failure, a status that is   *)
(* not 2xx, or a body that does not parse                                 *)
ProbeFailed(p) ==
    /\ probeResp[p] # NoResp
    /\ pc[p] # "probeBody"
    /\ ~testCloverConnection(probeResp[p]).success

(* The HTTP status of the probe's failure, 0 when it has none *)
ProbeFailureStatus(p) ==
    IF probeResp[p].kind = "response" /\ ~probeResp[p].bodyFails
                                     /\ ~(probeResp[p].status \in 200..299)
    THEN probeResp[p].status ELSE 0

(* The checkout-session call of p ended in failure *)
CheckoutFailed(p) == result[p].kind = "failure"

(* C11: the handler's status is the HTTP status of the gateway failure   *)
(* when it has one and 500 otherwise, for the probe and for the           *)
(* checkout-session call alike                                            *)
C11_FailureStatus ==
    \A p \in active :
        /\ ProbeFailed(p) =>
              res[p].status = IF ProbeFailureStatus(p) # 0 THEN ProbeFailureStatus(p) ELSE 500
        /\ CheckoutFailed(p) =>
              res[p].status = IF result[p].err.statusCode # 0
                              THEN result[p].err.statusCode ELSE 500

----------------------------------------------------------------------------
(* C12: whatever the gateway does on the probe or on any attempt, a POST  *)
(* is answered exactly once, by a JSON payload with an HTTP status code:  *)
(* no response is sent while the invocation runs, none is sent twice,     *)
(* and the invocation never ends without one                              *)
C12_AlwaysOneJsonResponse ==
    \A p \in active :
        req[p].method = "POST" =>
            /\ res[p].sent <= 1
            /\ ~Done(p) => res[p].sent = 0
            /\ Done(p) =>
                  /\ res[p].sent = 1
                  /\ res[p].json
                  /\ res[p].status \in 200..599

(* A 2xx checkout answer whose body does not parse, after a transport     *)
(* failure and a 5xx: answered once, 500, as JSON                         *)
C12_Witness ==
    /\ Done(1)
    /\ req[1].method = "POST"
    /\ Len(hist[1]) = 3
    /\ hist[1][1] = 0
    /\ hist[1][2] \in 500..599
    /\ hist[1][3] = 200
    /\ result[1].kind = "failure"
    /\ res[1].sent = 1
    /\ res[1].json
    /\ res[1].status = 500

----------------------------------------------------------------------------
(* The percentage of a coupon code of the table at lines 51-55, 0 for any *)
(* other code                                                             *)
Percentage(code) ==
    CASE code = "SAVE10" -> 10
      [] code = "SAVE20" -> 20
      [] code = "SAVE50" -> 50
      [] OTHER -> 0

(* d is amount * value / 100 rounded to the nearest integer, halves up *)
IsRounded(d, amount, value) ==
    /\ 100 * d - 50 <= amount * value
    /\ amount * value < 100 * d + 50

(* C13: a successful checkout for a positive amount reports               *)
(* discountAmount = round(amount * value / 100) for an active code        *)
(* SAVE10, SAVE20 or SAVE50 and 0 for no code or an unknown one, and      *)
(* finalAmount = max(0, amount - discountAmount); amount 100 with SAVE20  *)
(* gives 20, 80 and couponApplied SAVE20                                  *)
C13_Discount ==
    \A p \in active :
        (Done(p) /\ res[p].status = 200 /\ req[p].method = "POST") =>
            LET b == req[p].body
                r == res[p]
                v == Percentage(b.coupon)
            IN /\ b.amount > 0
               /\ r.originalAmount = b.amount
               /\ v # 0 => IsRounded(r.discountAmount, b.amount, v) /\ r.couponApplied = b.coupon
               /\ v = 0 => r.discountAmount = 0 /\ r.couponApplied = ""
               /\ r.finalAmount = Max(0, b.amount - r.discountAmount)
               /\ (b.amount = 100 /\ b.coupon = "SAVE20") =>
                     /\ r.discountAmount = 20
                     /\ r.finalAmount = 80
                     /\ r.couponApplied = "SAVE20"

(* 15 with SAVE50: 7.5 rounds to 8, 7 remain *)
C13_Witness ==
    /\ Done(1)
    /\ res[1].status = 200
    /\ req[1].body.amount = 15
    /\ req[1].body.coupon = "SAVE50"
    /\ res[1].discountAmount = 8
    /\ res[1].finalAmount = 7
    /\ res[1].couponApplied = "SAVE50"

(* The reference scenario of the claim *)
C13_WitnessReference ==
    /\ Done(1)
    /\ res[1].status = 200
    /\ req[1].body.amount = 100
    /\ req[1].body.coupon = "SAVE20"
    /\ res[1].discountAmount = 20
    /\ res[1].finalAmount = 80

----------------------------------------------------------------------------
(* Every attempt of p settled so far failed at the transport level *)
AllTransportFailures(p) ==
    /\ hist[p] # <<>>
    /\ \A i \in 1..Len(hist[p]) : hist[p][i] = 0

(* C16: when every attempt fails at the transport level, the invocation   *)
(* waits baseDelay * 2^attempt after each failed attempt but the last,    *)
(* issues exactly maxRetries + 1 attempts and the handler answers 500     *)
C16_TransportFailuresExhaust ==
    \A p \in active :
        AllTransportFailures(p) =>
            LET n == Len(hist[p]) IN
            /\ n <= policy.maxRetries + 1
            /\ \A k \in 1..n :
                  k <= policy.maxRetries =>
                     /\ Len(sleeps[p]) >= 2 * k - 1
                     /\ sleeps[p][2 * k - 1] = policy.baseDelay * Pow(2, k - 1)
            /\ n <= policy.maxRetries =>
                  /\ ~Done(p)
                  /\ res[p].sent = 0
            /\ n = policy.maxRetries + 1 =>
                  /\ Done(p)
                  /\ calls[p] = policy.maxRetries + 1
                  /\ Len(sleeps[p]) = 2 * policy.maxRetries
                  /\ result[p].kind = "failure"
                  /\ res[p].sent = 1
                  /\ res[p].status = 500

(* The deployed policy: four transport failures, waits 2000, 4000, 8000   *)
(* each followed by the fixed second, answer 500                          *)
C16_Witness ==
    /\ Done(1)
    /\ policy = DefaultPolicy
    /\ hist[1] = <<0, 0, 0, 0>>
    /\ calls[1] = 4
    /\ sleeps[1] = <<2000, 1000, 4000, 1000, 8000, 1000>>
    /\ res[1].status = 500

----------------------------------------------------------------------------
(* A status that is neither success nor 4xx nor 5xx *)
UnexpectedStatus(s) == s # 0 /\ ~(s \in 200..299) /\ ~(s \in 400..599)

(* C17: a response whose status is neither 2xx, 4xx nor 5xx ends the      *)
(* invocation in a failure carrying that status, and no attempt follows   *)
(* it, whatever the attempt index and the body                            *)
C17_UnexpectedStatusIsTerminal ==
    \A p \in active :
        \A i \in 1..Len(hist[p]) :
            UnexpectedStatus(hist[p][i]) =>
                /\ i = Len(hist[p])
                /\ calls[p] = i
                /\ Done(p)
                /\ result[p].kind = "failure"
                /\ result[p].err.statusCode = hist[p][i]

----------------------------------------------------------------------------
(* An attempt of makeRequestWithRetry of p is in flight *)
AttemptInFlight(p) == pc[p] = "fetching"

(* The time between the end of the previous fetch of p and the issue of   *)
(* the one in flight                                                      *)
WaitedBeforeIssue(p) == issuedAt[p] - settledAt[p]

(* C18: an attempt of index k > 0 is issued after the backoff wait        *)
(* computed for attempt k-1 and the fixed 1000 ms on top of it (a wait    *)
(* that is 0 or not a number lasts the 1 ms the timer makes of it), and   *)
(* attempt 0 is issued with no wait                                       *)
C18_SpacingOnTopOfBackoff ==
    \A p \in active :
        AttemptInFlight(p) =>
            /\ attempt[p] = 0 =>
                  /\ WaitedBeforeIssue(p) = 0
                  /\ sleeps[p] = <<>>
            /\ attempt[p] > 0 =>
                  /\ Len(sleeps[p]) = 2 * attempt[p]
                  /\ sleeps[p][2 * attempt[p]] = 1000
                  /\ WaitedBeforeIssue(p) = sleeps[p][2 * attempt[p] - 1] + 1000
                  /\ (~waitTime[p].nan /\ waitTime[p].v >= 1) =>
                        WaitedBeforeIssue(p) = waitTime[p].v + 1000
                  /\ (waitTime[p].nan \/ waitTime[p].v < 1) =>
                        WaitedBeforeIssue(p) = 1 + 1000

(* Attempt 2 in flight after the 4000 ms backoff of attempt 1 *)
C18_Witness ==
    /\ AttemptInFlight(1)
    /\ attempt[1] = 2
    /\ waitTime[1] = Num(4000)
    /\ WaitedBeforeIssue(1) = 5000
    /\ sleeps[1] = <<2000, 1000, 4000, 1000>>

(* Attempt 0 in flight, issued as the probe returned *)
C18_WitnessFirst ==
    /\ AttemptInFlight(1)
    /\ attempt[1] = 0
    /\ issuedAt[1] = settledAt[1]
    /\ issuedAt[1] > StartTime

----------------------------------------------------------------------------
(* C20: within one handler invocation the probe is issued once and never  *)
(* retried; a checkout-session call is issued only after the probe was    *)
(* answered 2xx; after a failed probe (a status that is not 2xx, or a     *)
(* transport failure) no checkout-session call is issued                  *)
C20_ProbeOnceThenCheckout ==
    \A p \in active :
        /\ probes[p] <= 1
        /\ pc[p] \in Pending => probes[p] = 1
        /\ calls[p] > 0 =>
              /\ probes[p] = 1
              /\ probeResp[p].kind = "response"
              /\ probeResp[p].status \in 200..299
        /\ (probeResp[p].kind = "transport"
              \/ (probeResp[p].kind = "response" /\ ~(probeResp[p].status \in 200..299))) =>
              /\ probes[p] = 1
              /\ calls[p] = 0
              /\ hist[p] = <<>>
              /\ pc[p] \in {"probeBody", "done"}

(* A probe answered 503 ends the invocation: one probe, no checkout call *)
C20_Witness ==
    /\ Done(1)
    /\ probeResp[1].kind = "response"
    /\ probeResp[1].status = 503
    /\ probes[1] = 1
    /\ calls[1] = 0
    /\ res[1].error = "Clover API connection failed"

(* A probe answered 2xx is followed by the checkout-session call *)
C20_WitnessCheckout ==
    /\ probeResp[1].kind = "response"
    /\ probeResp[1].status = 200
    /\ probes[1] = 1
    /\ calls[1] = 3

----------------------------------------------------------------------------
(* C15: the issue times of any two consecutive outbound calls are at      *)
(* least 1000 ms apart, the probe followed by the first checkout-session  *)
(* attempt of the same request included                                   *)
C15_MinimumSpacing ==
    prevIssue # -1 => lastIssue - prevIssue >= 1000

----------------------------------------------------------------------------
(* Concurrent invocations of the handler as deployed: every invocation   *)
(* of Procs runs, under the default policy, and its request arrives at    *)
(* a time of Arrivals.  The requests are the reference request next to    *)
(* requests that are answered without a gateway call, or requests that    *)
(* all get no further than the probe                                      *)

(* POST {amount: 100, coupon: "SAVE20", customerData: {name: 123}} *)
ProbeOnlyRequest == [method |-> "POST", body |-> OddName(Body(TRUE, TRUE, 100, "SAVE20"))]

(* POST {amount: 0, coupon: "SAVE10"} *)
RejectedRequest == [method |-> "POST", body |-> Body(TRUE, TRUE, 0, "SAVE10")]

ConcurrentRequests ==
    {[p \in Procs |-> IF p = 1 THEN ReferenceRequest ELSE RejectedRequest],
     [p \in Procs |-> ProbeOnlyRequest]}

InitConcurrent ==
    /\ policy = DefaultPolicy
    /\ env = Configured
    /\ req \in ConcurrentRequests
    /\ NothingStarted(Procs)

SpecConcurrent == InitConcurrent /\ [][Next]_vars

(* The invocations with a call in flight: its fetch, or the body of its   *)
(* answer, is pending                                                     *)
InFlight == {p \in active : pc[p] \in {"probe", "probeBody", "fetching", "reading"}}

(* C14: at any time at most one outbound gateway call is in flight, the   *)
(* calls of concurrent handler invocations included                       *)
C14_OneCallInFlight == Cardinality(InFlight) <= 1

----------------------------------------------------------------------------
(* Termination of makeRequestWithRetry.  The proviso of the claim, that   *)
(* every fetch and every sleep settles, is weak fairness of the steps     *)
(* that settle a pending await.                                           *)

Settles ==
    \E p \in Procs :
        \/ probeSettles(p) \/ probeBodySettles(p)
        \/ attemptSettles(p) \/ bodySettles(p)
        \/ backoffEnds(p) \/ spacingEnds(p)

(* makeRequestWithRetry under every policy, invoked for the reference     *)
(* request                                                                *)
InitLive ==
    /\ policy \in Policies \cup {DefaultPolicy}
    /\ env = Configured
    /\ req = [p \in Procs |-> IF p = 1 THEN ReferenceRequest ELSE NoReq]
    /\ NothingStarted({1})

SpecLive == InitLive /\ [][Next]_vars /\ WF_vars(Settles)

(* makeRequestWithRetry was invoked by p *)
Invoked(p) == calls[p] > 0

(* The invocation of p ended in exactly one outcome: a payload and no     *)
(* error, or an error and no payload                                      *)
OneOutcome(p) ==
    \/ /\ result[p].kind = "success"
       /\ result[p].payload # -1
       /\ result[p].err = NoErr
    \/ /\ result[p].kind = "failure"
       /\ result[p].payload = -1
       /\ result[p].err # NoErr

(* The steps the invocation of p can still take: four per attempt left    *)
(* (fetch, body, backoff, spacing)                                        *)
Remaining(p) ==
    LET left == 4 * (policy.maxRetries + 1 - attempt[p])
    IN CASE pc[p] = "fetching" -> left
         [] pc[p] = "reading" -> left - 1
         [] pc[p] = "backoff" -> left - 2
         [] pc[p] = "spacing" -> left + 1
         [] OTHER -> 0

(* Every invocation made so far has ended, in exactly one outcome *)
AllEnded == \A p \in Procs : Invoked(p) => (Done(p) /\ OneOutcome(p))

(* C19: when every fetch and sleep settles, an invocation of              *)
(* makeRequestWithRetry eventually ends, and it ends in exactly one       *)
(* outcome, a returned payload or a thrown failure: every step of it      *)
(* lowers the number of steps left, no outcome exists while it runs, and  *)
(* the outcome never changes once it exists.  An invocation stays         *)
(* invoked and an ended one stays ended, so "again and again every        *)
(* invocation made so far has ended" says that each one ends.             *)
C19_EndsInOneOutcome ==
    /\ []<>AllEnded
    /\ [](\A p \in Procs :
            /\ (Invoked(p) /\ ~Done(p)) => (result[p] = NoResult /\ Remaining(p) > 0)
            /\ (Invoked(p) /\ Done(p)) => OneOutcome(p))
    /\ [][\A p \in Procs :
            /\ (Invoked(p) /\ pc'[p] # pc[p]) => Remaining(p)' < Remaining(p)
            /\ result[p] # NoResult => result'[p] = result[p]]_vars

(* An invocation that ended by returning after two retries *)
C19_Witness ==
    /\ Done(1)
    /\ calls[1] = 3
    /\ result[1].kind = "success"
    /\ result[1].payload # -1
    /\ result[1].err = NoErr

(* An invocation that ended by throwing on its last attempt *)
C19_WitnessThrow ==
    /\ Done(1)
    /\ calls[1] = policy.maxRetries + 1
    /\ policy.maxRetries = 2
    /\ result[1].kind = "failure"
    /\ result[1].err.statusCode = 503

====
